---- MODULE Spec2Model ----
(***************************************************************************)
(* Model of rasa/model_training.py: the train entry points (train_async,   *)
(* train_core, train_nlu), the retrain decision, the dry-run report and    *)
(* the scoped temporary directories of one training invocation after the   *)
(* other against one output directory (Spec); two concurrent runs of       *)
(* _do_training (SpecConcurrent); and Tokenizer.add_cls_token of           *)
(* rasa/nlu/tokenizers/tokenizer.py (SpecTokenizer).                       *)
(***************************************************************************)
EXTENDS Integers, Sequences, FiniteSets, TLC

VARIABLES
    pc,                      \* the function the invocation is in; "done" when it ended, "idle" before the next
    args,                    \* the arguments of the invocation and what it has loaded from the importer so far
    outputDir,               \* the most recent archive of the output directory (the one get_latest_model reads)
    prior,                   \* outputDir as it was when the current invocation started
    old_model,               \* local old_model of _train_async_internal
    fingerprint_comparison,  \* local fingerprint_comparison of _train_async_internal
    should_retrain_calls,    \* calls of model.should_retrain in this invocation
    trained,                 \* the training operations this invocation executed, in order
    packaged,                \* archives this invocation wrote to the output directory
    tempDirs,                \* temporary directories of this invocation that exist now
    acquired,                \* temporary directories this invocation created so far
    call,                    \* the arguments of the pending call of a *_with_validated_data function
    result,                  \* how the last invocation ended and what it returned
    clock,                   \* the second time.strftime reads now
    run_pc,                  \* per concurrent run: where it is in _do_training
    model_name_of,           \* per concurrent run: its local model_name
    written,                 \* per archive name of the output directory: the runs that wrote it, in order
    tokens,                  \* the token list handed to Tokenizer.add_cls_token
    attribute,               \* its attribute argument
    use_cls_token,           \* Tokenizer.use_cls_token
    returned                 \* what add_cls_token returned

trainingVars == <<pc, args, outputDir, prior, old_model, fingerprint_comparison,
                  should_retrain_calls, trained, packaged, tempDirs, acquired, call, result>>
concurrentVars == <<clock, run_pc, model_name_of, written>>
tokenizerVars == <<tokens, attribute, use_cls_token, returned>>

vars == <<pc, args, outputDir, prior, old_model, fingerprint_comparison, should_retrain_calls,
          trained, packaged, tempDirs, acquired, call, result,
          clock, run_pc, model_name_of, written,
          tokens, attribute, use_cls_token, returned>>

----------------------------------------------------------------------------
(* Bounds of the model *)

\* time.strftime readings are 0..MaxTime (one-second resolution)
MaxTime == 1
\* randomname.get_name() draws one of 1..NumSuffixes
NumSuffixes == 1

Stamps == 0..MaxTime
Suffixes == 1..NumSuffixes

----------------------------------------------------------------------------
(* Result codes, model_training.py lines 51-54 *)

CODE_CORE_NEEDS_TO_BE_RETRAINED == 1
CODE_NLU_NEEDS_TO_BE_RETRAINED == 2
CODE_NLG_NEEDS_TO_BE_RETRAINED == 4
CODE_FORCED_TRAINING == 8

----------------------------------------------------------------------------
(* Values *)

\* the sections of the project whose content is fingerprinted
Sections == {"core", "nlu", "nlg"}

\* what model.get_model_for_finetuning / model.can_finetune find for model_to_finetune
Finetune == {"none", "not_found", "incompatible", "compatible"}

NoName == [fixed |-> FALSE, prefix |-> "", stamp |-> 0, suffix |-> 0]
NoPath == [type |-> "none", name |-> NoName]
ArchivePath(name) == [type |-> "archive", name |-> name]
DirectoryPath == [type |-> "directory", name |-> NoName]

NoFingerprint == [core |-> FALSE, nlu |-> FALSE, nlg |-> FALSE]
NoArchive == [present |-> FALSE, name |-> NoName, fingerprint |-> NoFingerprint]
Archive(name, fp) == [present |-> TRUE, name |-> name, fingerprint |-> fp]

\* FingerprintComparisonResult(nlu, core, nlg, force_training)
FingerprintComparisonResult(core, nlu, nlg, force_training) ==
    [core |-> core, nlu |-> nlu, nlg |-> nlg, force_training |-> force_training]

NoComparison == [core |-> FALSE, nlu |-> FALSE, nlg |-> FALSE, force_training |-> FALSE,
                 computed |-> FALSE]
Computed(fc) == [core |-> fc.core, nlu |-> fc.nlu, nlg |-> fc.nlg,
                 force_training |-> fc.force_training, computed |-> TRUE]

\* TrainingResult(model, code) with the texts a dry run printed; kind is how the call ended
TrainingResult(kind, model, code, texts) ==
    [kind |-> kind, model |-> model, code |-> code, texts |-> texts]
NoResult == TrainingResult("none", NoPath, 0, <<>>)

NoCall == [train_path |-> FALSE, fixed_model_name |-> FALSE, model_to_finetune |-> "none"]

----------------------------------------------------------------------------
(* Collaborators of rasa.model *)

\* model.model_fingerprint: a digest per section, a pure function of the content
model_fingerprint(content) ==
    [core |-> "core" \in content, nlu |-> "nlu" \in content, nlg |-> "nlg" \in content]

\* model.get_latest_model(output_path)
get_latest_model(dir) == IF dir.present THEN ArchivePath(dir.name) ELSE NoPath

\* FingerprintComparisonResult.is_training_required
is_training_required(fc) == fc.nlg \/ fc.nlu \/ fc.core \/ fc.force_training

\* model.should_retrain: forced => everything changed; no previous archive =>
\* everything changed; else one flag per section whose fingerprint differs
should_retrain(new_fingerprint, old, dir, force_training) ==
    IF force_training
    THEN FingerprintComparisonResult(TRUE, TRUE, TRUE, TRUE)
    ELSE IF old.type = "none" \/ ~dir.present
    THEN FingerprintComparisonResult(TRUE, TRUE, TRUE, FALSE)
    ELSE FingerprintComparisonResult(
            new_fingerprint.core # dir.fingerprint.core,
            new_fingerprint.nlu # dir.fingerprint.nlu,
            new_fingerprint.nlg # dir.fingerprint.nlg,
            FALSE)

\* model.can_finetune(old_fingerprint, new_fingerprint, ...) for the archive found
can_finetune(model_to_finetune) == model_to_finetune = "compatible"

\* the archive name model.package_model chooses: the fixed name when one is
\* given, else <prefix><timestamp>_<random suffix>
create_output_path(prefix, fixed_model_name, stamp, suffix) ==
    IF fixed_model_name
    THEN [fixed |-> TRUE, prefix |-> "", stamp |-> 0, suffix |-> 0]
    ELSE [fixed |-> FALSE, prefix |-> prefix, stamp |-> stamp, suffix |-> suffix]

----------------------------------------------------------------------------
(* dry_run_result, lines 149-184 *)

\* the flags a comparison result is summed from, without the forced case
FlagsCode(fc, nlg_code) ==
    (IF fc.core THEN CODE_CORE_NEEDS_TO_BE_RETRAINED ELSE 0)
    + (IF fc.nlu THEN CODE_NLU_NEEDS_TO_BE_RETRAINED ELSE 0)
    + (IF fc.nlg THEN nlg_code ELSE 0)

\* dry_run_result without the early return of line 167
dry_run_result_NoEarlyReturn(fc) ==
    [code |-> (IF fc.force_training THEN CODE_FORCED_TRAINING ELSE 0)
              + FlagsCode(fc, CODE_NLG_NEEDS_TO_BE_RETRAINED),
     texts |-> <<"The training was forced.">>]

\* dry_run_result adding the NLU code for a change of the responses
dry_run_result_NlgAsNlu(fc) ==
    [code |-> IF fc.force_training THEN CODE_FORCED_TRAINING
              ELSE FlagsCode(fc, CODE_NLU_NEEDS_TO_BE_RETRAINED),
     texts |-> <<>>]

\* dry_run_result returning from the forced case before it sets the code
dry_run_result_ForcedUnset(fc) ==
    [code |-> IF fc.force_training THEN 0
              ELSE FlagsCode(fc, CODE_NLG_NEEDS_TO_BE_RETRAINED),
     texts |-> <<>>]

dry_run_result(fc) ==
    IF fc.force_training
    THEN [code |-> CODE_FORCED_TRAINING, texts |-> <<"The training was forced.">>]
    ELSE LET code1 == IF fc.core THEN 0 + CODE_CORE_NEEDS_TO_BE_RETRAINED ELSE 0
             texts1 == IF fc.core THEN <<"Core model should be retrained.">> ELSE <<>>
             code2 == IF fc.nlu THEN code1 + CODE_NLU_NEEDS_TO_BE_RETRAINED ELSE code1
             texts2 == IF fc.nlu THEN Append(texts1, "NLU model should be retrained.")
                       ELSE texts1
             code3 == IF fc.nlg THEN code2 + CODE_NLG_NEEDS_TO_BE_RETRAINED ELSE code2
             texts3 == IF fc.nlg
                       THEN Append(texts2, "Responses in the domain should be updated.")
                       ELSE texts2
         IN  [code |-> code3,
              texts |-> IF code3 = 0 THEN Append(texts3, "No training required.")
                        ELSE texts3]

----------------------------------------------------------------------------
(* Scoped temporary directories *)

\* leaving the with-blocks that own the directories `scope`, by a normal
\* return ("return"), by sys.exit ("fatal") or by an exception ("exception"):
\* TempDirectoryPath.__exit__ / TemporaryDirectory.__exit__ remove them
ReleaseOnReturnOnly(dirs, scope, how) == IF how = "return" THEN dirs \ scope ELSE dirs

ReleaseOnExit(dirs, scope, how) == dirs \ scope

----------------------------------------------------------------------------
(* The arguments of the entry points, and the data the importer loads     *)
(* when the invocation asks for them                                       *)

Args(entry) ==
    [entry : {entry},
     domain_empty : BOOLEAN,         \* domain.is_empty()
     stories_empty : BOOLEAN,        \* stories.is_empty(); in train_core: not stories
     pure_nlu : BOOLEAN,             \* not nlu_data.contains_no_pure_nlu_data()
     e2e : BOOLEAN,                  \* nlu_data.has_e2e_examples()
     dry_run : BOOLEAN,
     force_training : BOOLEAN,
     fixed_model_name : BOOLEAN,     \* a fixed_model_name is given
     model_to_finetune : Finetune,
     train_path : BOOLEAN,           \* a train_path is given (train_core, train_nlu)
     nlu_data : BOOLEAN,             \* a path to NLU data is given (train_nlu)
     content : SUBSET Sections,      \* the sections edited since the project was created
     fingerprinted : BOOLEAN]        \* model_fingerprint has read the content

\* before get_stories, get_nlu_data and model_fingerprint are called
NothingLoaded(a) ==
    a.stories_empty /\ ~a.pure_nlu /\ ~a.e2e /\ a.content = {} /\ ~a.fingerprinted

\* train_async loads the domain (line 107)
TrainAsyncArgs ==
    {a \in Args("train_async") : ~a.train_path /\ a.nlu_data /\ NothingLoaded(a)}

\* train_core loads stories, NLU data and domain (lines 468-470)
TrainCoreArgs ==
    {a \in Args("train_core") :
        /\ ~a.pure_nlu /\ ~a.dry_run /\ ~a.force_training /\ a.nlu_data
        /\ a.content = {} /\ ~a.fingerprinted}

\* train_nlu_async loads the NLU data (line 693)
TrainNluArgs ==
    {a \in Args("train_nlu") :
        /\ ~a.domain_empty /\ a.stories_empty /\ ~a.e2e /\ ~a.dry_run
        /\ ~a.force_training /\ a.content = {} /\ ~a.fingerprinted}

NoArgs == CHOOSE a \in TrainAsyncArgs :
    /\ a.domain_empty /\ ~a.dry_run /\ ~a.force_training /\ ~a.fixed_model_name
    /\ a.model_to_finetune = "none"

\* stories and nlu_data as lines 225-226 load them, new_fingerprint as line
\* 228 computes it
Loaded(a) ==
    {[a EXCEPT !.stories_empty = se, !.pure_nlu = pn, !.e2e = e, !.content = c,
               !.fingerprinted = TRUE] :
        se \in BOOLEAN, pn \in BOOLEAN, e \in BOOLEAN, c \in SUBSET Sections}

\* the content model_fingerprint reads: what it read before in this invocation
Fingerprinted(a) ==
    IF a.fingerprinted THEN {a}
    ELSE {[a EXCEPT !.content = c, !.fingerprinted = TRUE] : c \in SUBSET Sections}

----------------------------------------------------------------------------
(* Initial state: no invocation yet, an empty output directory *)

TrainingInit ==
    /\ pc = "idle"
    /\ args = NoArgs
    /\ outputDir = NoArchive
    /\ prior = NoArchive
    /\ old_model = NoPath
    /\ fingerprint_comparison = NoComparison
    /\ should_retrain_calls = 0
    /\ trained = <<>>
    /\ packaged = 0
    /\ tempDirs = {}
    /\ acquired = 0
    /\ call = NoCall
    /\ result = NoResult

\* no concurrent runs, no tokenizer call
NoConcurrentRuns ==
    /\ clock = 0
    /\ run_pc = <<>>
    /\ model_name_of = <<>>
    /\ written = <<>>

NoTokenizerCall ==
    /\ tokens = <<>>
    /\ attribute = ""
    /\ use_cls_token = FALSE
    /\ returned = <<>>

Init == TrainingInit /\ NoConcurrentRuns /\ NoTokenizerCall

\* the start of an invocation: its locals and counters are fresh
Enter(a) ==
    /\ args' = a
    /\ old_model' = NoPath
    /\ fingerprint_comparison' = NoComparison
    /\ should_retrain_calls' = 0
    /\ trained' = <<>>
    /\ packaged' = 0
    /\ prior' = outputDir
    /\ UNCHANGED outputDir

\* the end of an invocation: every with-block still open is left
Finish(kind, model, code, texts, dirs) ==
    /\ pc' = "done"
    /\ result' = TrainingResult(kind, model, code, texts)
    /\ tempDirs' = ReleaseOnExit(dirs, dirs, kind)
    /\ call' = NoCall

----------------------------------------------------------------------------
(* train_async, lines 102-129 *)

train_async ==
    /\ pc = "idle"
    /\ \E a \in TrainAsyncArgs :
        /\ Enter(a)
        /\ tempDirs' = {"train_path"}
        /\ acquired' = 1
        /\ pc' = IF a.domain_empty THEN "handle_domain_if_not_exists"
                 ELSE "_train_async_internal"
        /\ call' = NoCall
        /\ result' = NoResult

    /\ UNCHANGED <<concurrentVars, tokenizerVars>>
(* handle_domain_if_not_exists, lines 132-146 *)

\* handle_domain_if_not_exists calling without the fixed_model_name
handle_domain_if_not_exists_DropsName ==
    /\ pc = "handle_domain_if_not_exists"
    /\ pc' = "_train_nlu_with_validated_data"
    /\ call' = [train_path |-> FALSE, fixed_model_name |-> FALSE,
                model_to_finetune |-> "none"]
    /\ UNCHANGED <<args, outputDir, prior, old_model, fingerprint_comparison,
                   should_retrain_calls, trained, packaged, tempDirs, acquired, result>>
    /\ UNCHANGED <<concurrentVars, tokenizerVars>>

handle_domain_if_not_exists ==
    /\ pc = "handle_domain_if_not_exists"
    /\ pc' = "_train_nlu_with_validated_data"
    /\ call' = [train_path |-> FALSE, fixed_model_name |-> args.fixed_model_name,
                model_to_finetune |-> "none"]
    /\ UNCHANGED <<args, outputDir, prior, old_model, fingerprint_comparison,
                   should_retrain_calls, trained, packaged, tempDirs, acquired, result>>

    /\ UNCHANGED <<concurrentVars, tokenizerVars>>
----------------------------------------------------------------------------
(* _train_async_internal, lines 225-325 *)

\* the branch lines 231-279 take, without the Core-only case of lines 266-279
branch_WithoutCoreOnly(a) ==
    IF a.dry_run THEN "dry_run"
    ELSE IF a.stories_empty /\ ~a.pure_nlu THEN "no_data"
    ELSE IF a.stories_empty THEN "nlu_only"
    ELSE "combined"

\* the branch lines 231-279 take
branch(a) ==
    IF a.dry_run THEN "dry_run"
    ELSE IF a.stories_empty /\ ~a.pure_nlu THEN "no_data"
    ELSE IF a.stories_empty THEN "nlu_only"
    ELSE IF ~a.pure_nlu /\ ~a.e2e THEN "core_only"
    ELSE "combined"

\* line 284: the fingerprints are compared unless training is forced
ConsultsAlways(force_training) == TRUE

consults_should_retrain(force_training) == ~force_training

\* lines 284-292: the comparison result of a real (not dry) run
retrain_comparison(force_training, new_fingerprint, old, dir) ==
    IF consults_should_retrain(force_training)
    THEN should_retrain(new_fingerprint, old, dir, FALSE)
    ELSE FingerprintComparisonResult(TRUE, TRUE, TRUE, TRUE)

\* line 294: not old_model or fingerprint_comparison.is_training_required()
TrainsAlways(old, fc) == TRUE

TrainsOnlyWithOldModel(old, fc) == old.type # "none" /\ is_training_required(fc)

must_train(old, fc) == old.type = "none" \/ is_training_required(fc)

_train_async_internal ==
    /\ pc = "_train_async_internal"
    /\ \E a \in Loaded(args) :
       LET new_fingerprint == model_fingerprint(a.content)
           old == get_latest_model(outputDir)
           b == branch(a)
       IN  /\ args' = a
           /\ old_model' = old
           /\ UNCHANGED <<outputDir, prior, trained, packaged, acquired>>
           /\ CASE b = "dry_run" ->
                    LET fc == should_retrain(new_fingerprint, old, outputDir,
                                             a.force_training)
                        r == dry_run_result(fc)
                    IN  /\ fingerprint_comparison' = Computed(fc)
                        /\ should_retrain_calls' = should_retrain_calls + 1
                        /\ Finish("return", NoPath, r.code, r.texts, tempDirs)
                [] b = "no_data" ->
                    /\ Finish("return", NoPath, 0, <<>>, tempDirs)
                    /\ UNCHANGED <<fingerprint_comparison, should_retrain_calls>>
                [] b = "nlu_only" ->
                    /\ pc' = "_train_nlu_with_validated_data"
                    /\ call' = [train_path |-> FALSE,
                                fixed_model_name |-> a.fixed_model_name,
                                model_to_finetune |-> a.model_to_finetune]
                    /\ UNCHANGED <<fingerprint_comparison, should_retrain_calls,
                                   tempDirs, result>>
                [] b = "core_only" ->
                    /\ pc' = "_train_core_with_validated_data"
                    /\ call' = [train_path |-> FALSE,
                                fixed_model_name |-> a.fixed_model_name,
                                model_to_finetune |-> a.model_to_finetune]
                    /\ UNCHANGED <<fingerprint_comparison, should_retrain_calls,
                                   tempDirs, result>>
                [] b = "combined" ->
                    LET fc == retrain_comparison(a.force_training, new_fingerprint,
                                                 old, outputDir)
                    IN  /\ fingerprint_comparison' = Computed(fc)
                        /\ should_retrain_calls' = should_retrain_calls
                              + (IF consults_should_retrain(a.force_training)
                                 THEN 1 ELSE 0)
                        /\ IF must_train(old, fc)
                           THEN /\ pc' = "_do_training"
                                /\ UNCHANGED <<tempDirs, result, call>>
                           ELSE Finish("return", old, 0, <<>>, tempDirs)

    /\ UNCHANGED <<concurrentVars, tokenizerVars>>
(* _do_training, lines 343-362 *)

\* lines 355-358: <timestamp>_<random name>.tar.gz in output_path
model_name(stamp, suffix) ==
    [fixed |-> FALSE, prefix |-> "", stamp |-> stamp, suffix |-> suffix]

_do_training ==
    /\ pc = "_do_training"
    /\ \E ok \in BOOLEAN, stamp \in Stamps, suffix \in Suffixes :
        LET dirs == tempDirs \cup {"temp_model_dir"}
            name == model_name(stamp, suffix)
        IN  /\ acquired' = acquired + 1
            /\ trained' = Append(trained, "graph")
            /\ IF ok
               THEN /\ outputDir' = Archive(name, model_fingerprint(args.content))
                    /\ packaged' = packaged + 1
                    /\ Finish("return", ArchivePath(name), 0, <<>>, dirs)
               ELSE /\ Finish("exception", NoPath, 0, <<>>, dirs)
                    /\ UNCHANGED <<outputDir, packaged>>
    /\ UNCHANGED <<args, prior, old_model, fingerprint_comparison, should_retrain_calls>>

    /\ UNCHANGED <<concurrentVars, tokenizerVars>>
----------------------------------------------------------------------------
(* Fine-tuning, lines 582-613 and 792-828 *)

\* what _core_model_for_finetuning does for model_to_finetune: returns None
\* ("None"), exits ("exit") or returns the loaded agent ("model")
_core_model_for_finetuning(model_to_finetune, loaded) ==
    IF model_to_finetune = "not_found" THEN "None"
    ELSE IF ~can_finetune(model_to_finetune) THEN "exit"
    ELSE IF loaded THEN "model"
    ELSE "None"

_nlu_model_for_finetuning(model_to_finetune, loaded) ==
    IF model_to_finetune = "not_found" THEN "None"
    ELSE IF ~can_finetune(model_to_finetune) THEN "exit"
    ELSE IF loaded THEN "model"
    ELSE "None"

\* the directory model.unpack_model creates for the archive to fine-tune
unpack_model(model_to_finetune) ==
    IF model_to_finetune \in {"incompatible", "compatible"} THEN {"unpacked"} ELSE {}

\* lines 568-579 and 777-789: what the *_with_validated_data functions return
\* after training: the packaged archive when no train_path was given, else
\* the train_path directory
returned_path(train_path, name) ==
    IF ~train_path THEN ArchivePath(name) ELSE DirectoryPath

(* _train_core_with_validated_data, lines 518-579, and                     *)
(* _train_nlu_with_validated_data, lines 727-789                           *)

TrainWithValidatedData(stage, prefix) ==
    \E ok \in BOOLEAN, loaded \in BOOLEAN, stamp \in Stamps, suffix \in Suffixes,
       a \in Fingerprinted(args) :
        LET own == IF call.train_path THEN {} ELSE {"_train_path"}
            finetune == IF call.model_to_finetune = "none" THEN "skip"
                        ELSE IF stage = "core"
                        THEN _core_model_for_finetuning(call.model_to_finetune, loaded)
                        ELSE _nlu_model_for_finetuning(call.model_to_finetune, loaded)
            unpacked == IF call.model_to_finetune = "none" THEN {}
                        ELSE unpack_model(call.model_to_finetune)
            dirs == ReleaseOnExit(tempDirs \cup own \cup unpacked, unpacked,
                                  IF finetune = "exit" THEN "fatal" ELSE "return")
            name == create_output_path(prefix, call.fixed_model_name, stamp, suffix)
        IN  /\ acquired' = acquired + Cardinality(own) + Cardinality(unpacked)
            /\ IF finetune \in {"exit", "None"}
               THEN /\ Finish("fatal", NoPath, 0, <<>>, dirs)
                    /\ UNCHANGED <<args, trained, outputDir, packaged>>
               ELSE /\ trained' = Append(trained, stage)
                    /\ IF ~ok
                       THEN /\ Finish("exception", NoPath, 0, <<>>, dirs)
                            /\ UNCHANGED <<args, outputDir, packaged>>
                       ELSE /\ Finish("return", returned_path(call.train_path, name),
                                      0, <<>>, dirs)
                            /\ IF ~call.train_path
                               THEN /\ args' = a
                                    /\ outputDir' =
                                          Archive(name, model_fingerprint(a.content))
                                    /\ packaged' = packaged + 1
                               ELSE UNCHANGED <<args, outputDir, packaged>>
            /\ UNCHANGED <<prior, old_model, fingerprint_comparison,
                           should_retrain_calls>>

_train_core_with_validated_data ==
    /\ pc = "_train_core_with_validated_data"
    /\ TrainWithValidatedData("core", "core-")

    /\ UNCHANGED <<concurrentVars, tokenizerVars>>
_train_nlu_with_validated_data ==
    /\ pc = "_train_nlu_with_validated_data"
    /\ TrainWithValidatedData("nlu", "nlu-")

    /\ UNCHANGED <<concurrentVars, tokenizerVars>>
----------------------------------------------------------------------------
(* train_core, lines 465-502 *)

\* the checks of lines 472-492 with the domain looked at first
train_core_checks_DomainFirst(a) ==
    IF a.domain_empty THEN "Core training was skipped because no valid domain file was found."
    ELSE IF a.e2e THEN "Stories file contains e2e stories."
    ELSE IF a.stories_empty THEN "No stories given."
    ELSE "passed"

\* lines 472-492: the error the checks print, "passed" when there is none
train_core_checks(a) ==
    IF a.e2e THEN "Stories file contains e2e stories."
    ELSE IF a.domain_empty
    THEN "Core training was skipped because no valid domain file was found."
    ELSE IF a.stories_empty THEN "No stories given."
    ELSE "passed"

train_core ==
    /\ pc = "idle"
    /\ \E a \in TrainCoreArgs :
        /\ Enter(a)
        /\ acquired' = 0
        /\ IF train_core_checks(a) # "passed"
           THEN Finish("return", NoPath, 0, <<train_core_checks(a)>>, {})
           ELSE /\ pc' = "_train_core_with_validated_data"
                /\ call' = [train_path |-> a.train_path,
                            fixed_model_name |-> a.fixed_model_name,
                            model_to_finetune |-> a.model_to_finetune]
                /\ tempDirs' = {}
                /\ result' = NoResult

    /\ UNCHANGED <<concurrentVars, tokenizerVars>>
(* train_nlu / train_nlu_async, lines 652-711 *)

\* lines 681-700: the error the checks print, "passed" when there is none
train_nlu_async_checks(a) ==
    IF ~a.nlu_data THEN "No NLU data given."
    ELSE IF ~a.pure_nlu THEN "Path doesn't contain valid NLU data in it."
    ELSE "passed"

train_nlu ==
    /\ pc = "idle"
    /\ \E a \in TrainNluArgs :
        /\ Enter(a)
        /\ acquired' = 0
        /\ IF train_nlu_async_checks(a) # "passed"
           THEN Finish("return", NoPath, 0, <<train_nlu_async_checks(a)>>, {})
           ELSE /\ pc' = "_train_nlu_with_validated_data"
                /\ call' = [train_path |-> a.train_path,
                            fixed_model_name |-> a.fixed_model_name,
                            model_to_finetune |-> a.model_to_finetune]
                /\ tempDirs' = {}
                /\ result' = NoResult

    /\ UNCHANGED <<concurrentVars, tokenizerVars>>
----------------------------------------------------------------------------
(* The caller has the result; the frame of the invocation is gone *)

Return ==
    /\ pc = "done"
    /\ pc' = "idle"
    /\ args' = NoArgs
    /\ old_model' = NoPath
    /\ fingerprint_comparison' = NoComparison
    /\ should_retrain_calls' = 0
    /\ trained' = <<>>
    /\ packaged' = 0
    /\ acquired' = 0
    /\ result' = NoResult
    /\ prior' = NoArchive
    /\ UNCHANGED <<outputDir, tempDirs, call>>

    /\ UNCHANGED <<concurrentVars, tokenizerVars>>
----------------------------------------------------------------------------
Next ==
    \/ train_async
    \/ handle_domain_if_not_exists
    \/ _train_async_internal
    \/ _do_training
    \/ _train_core_with_validated_data
    \/ _train_nlu_with_validated_data
    \/ train_core
    \/ train_nlu
    \/ Return

Spec == Init /\ [][Next]_vars

----------------------------------------------------------------------------
(* Properties *)

AllComparisons ==
    {FingerprintComparisonResult(c, n, g, f) :
        c \in BOOLEAN, n \in BOOLEAN, g \in BOOLEAN, f \in BOOLEAN}

\* the comparison result of the invocation without its `computed` mark
Comparison ==
    FingerprintComparisonResult(fingerprint_comparison.core, fingerprint_comparison.nlu,
                                fingerprint_comparison.nlg,
                                fingerprint_comparison.force_training)

\* a train_async invocation that got past the empty-domain check, not a dry run,
\* with stories and NLU data: the branch that decides by the fingerprints
CombinedRun ==
    /\ args.entry = "train_async" /\ ~args.domain_empty /\ ~args.dry_run
    /\ ~args.stories_empty /\ (args.pure_nlu \/ args.e2e)

\* the prior archive holds the fingerprint of the inputs of this invocation
Unchanged ==
    /\ args.fingerprinted /\ prior.present
    /\ prior.fingerprint = model_fingerprint(args.content)

\* C1: a train_async invocation with dry_run set executes no training
\* operation, packages no archive and returns model = None.
C1_DryRunTrainsNothing ==
    (pc # "idle" /\ args.entry = "train_async" /\ args.dry_run)
        => /\ trained = <<>>
           /\ packaged = 0
           /\ outputDir = prior
           /\ (pc = "done" => result.model = NoPath)

\* C2: for every comparison result with force_training set, dry_run_result
\* gives code CODE_FORCED_TRAINING = 8 and the single reason "The training was
\* forced.", whatever the core, nlu and nlg flags are; so does every dry run
\* whose comparison result carries the flag.
ForcedCodeOfEveryComparison ==
    /\ CODE_FORCED_TRAINING = 8
    /\ \A fc \in AllComparisons :
          fc.force_training
              => dry_run_result(fc) = [code |-> 8, texts |-> <<"The training was forced.">>]

C2_ForcedCode ==
    /\ ForcedCodeOfEveryComparison
    /\ (pc = "done" /\ args.dry_run /\ fingerprint_comparison.computed
            /\ fingerprint_comparison.force_training)
          => (result.code = 8 /\ result.texts = <<"The training was forced.">>)

C2_Witness ==
    /\ pc = "done" /\ args.entry = "train_async" /\ args.dry_run /\ args.force_training
    /\ fingerprint_comparison.computed /\ fingerprint_comparison.force_training
    /\ fingerprint_comparison.core /\ Unchanged
    /\ result.code = 8

\* C3: without the force flag the code of dry_run_result is the bitmask
\* 1*core + 2*nlu + 4*nlg: each flag is read back from its bit, the nlg flag
\* alone gives 4, and the code is 0 iff no flag is set; every dry run that is
\* not forced reports that code.
Bit(code, value) == (code \div value) % 2 = 1

BitmaskOfEveryComparison ==
    \A fc \in AllComparisons :
          ~fc.force_training =>
              LET code == dry_run_result(fc).code
              IN  /\ code = (IF fc.core THEN 1 ELSE 0) + (IF fc.nlu THEN 2 ELSE 0)
                            + (IF fc.nlg THEN 4 ELSE 0)
                  /\ Bit(code, 1) = fc.core
                  /\ Bit(code, 2) = fc.nlu
                  /\ Bit(code, 4) = fc.nlg
                  /\ (fc.nlg /\ ~fc.core /\ ~fc.nlu => code = 4)
                  /\ (code = 0) = (~fc.core /\ ~fc.nlu /\ ~fc.nlg)

C3_Bitmask ==
    /\ BitmaskOfEveryComparison
    /\ (pc = "done" /\ args.dry_run /\ fingerprint_comparison.computed
            /\ ~fingerprint_comparison.force_training)
          => /\ Bit(result.code, 1) = fingerprint_comparison.core
             /\ Bit(result.code, 2) = fingerprint_comparison.nlu
             /\ Bit(result.code, 4) = fingerprint_comparison.nlg
             /\ result.code < 8

C3_Witness ==
    /\ pc = "done" /\ args.entry = "train_async" /\ args.dry_run /\ ~args.force_training
    /\ fingerprint_comparison.computed
    /\ fingerprint_comparison.nlg /\ ~fingerprint_comparison.core
    /\ ~fingerprint_comparison.nlu
    /\ result.code = 4
    /\ result.texts = <<"Responses in the domain should be updated.">>

\* C4: for every combination of the four flags the dry-run code is non-zero
\* exactly when is_training_required holds, which is when at least one flag is
\* set; so a real run that found a prior archive goes on to train exactly when
\* dry_run_result gives a non-zero code for its comparison result.
DecisionOfEveryComparison ==
    \A fc \in AllComparisons :
        /\ is_training_required(fc)
              = (fc.core \/ fc.nlu \/ fc.nlg \/ fc.force_training)
        /\ (dry_run_result(fc).code # 0) = is_training_required(fc)
        /\ must_train(ArchivePath(NoName), fc) = (dry_run_result(fc).code # 0)

C4_DryRunAgreesWithDecision ==
    /\ DecisionOfEveryComparison
    /\ (CombinedRun /\ fingerprint_comparison.computed /\ old_model.type = "archive")
          => ((pc = "_do_training" \/ trained # <<>>)
                = (dry_run_result(Comparison).code # 0))

C4_Witness ==
    /\ pc = "done" /\ CombinedRun /\ fingerprint_comparison.computed
    /\ old_model.type = "archive"
    /\ ~is_training_required(Comparison)
    /\ dry_run_result(Comparison).code = 0
    /\ trained = <<>>

\* the prior archive is one a train of these very inputs writes: it holds
\* their fingerprint and has the name of the training they lead to
PriorOfSameInputs ==
    /\ Unchanged /\ ~prior.name.fixed /\ ~args.domain_empty
    /\ \/ args.stories_empty /\ args.pure_nlu /\ prior.name.prefix = "nlu-"
       \/ ~args.stories_empty /\ ~args.pure_nlu /\ ~args.e2e
             /\ prior.name.prefix = "core-"
       \/ ~args.stories_empty /\ (args.pure_nlu \/ args.e2e) /\ prior.name.prefix = ""

C6_ForceSkipsComparison ==
    (CombinedRun /\ args.force_training /\ pc \in {"_do_training", "done"})
        => /\ should_retrain_calls = 0
           /\ fingerprint_comparison.computed
           /\ fingerprint_comparison.force_training
           /\ (pc = "done" => trained = <<"graph">>)

C6_Witness ==
    /\ pc = "done" /\ CombinedRun /\ args.force_training /\ Unchanged
    /\ should_retrain_calls = 0
    /\ trained = <<"graph">>
    /\ result.kind = "return"
    /\ packaged = 1

\* C7: in a real run with stories and NLU data that finds no previous archive,
\* training is always executed; the "Nothing changed" branch (the run ends
\* without training) is taken only with a prior archive, whose path it returns.
C7_FirstRunTrains ==
    (CombinedRun /\ pc \in {"_do_training", "done"})
        => /\ old_model = get_latest_model(prior)
           /\ (~prior.present => (pc = "_do_training" \/ trained = <<"graph">>))
           /\ ((pc = "done" /\ trained = <<>>)
                  => (prior.present /\ old_model.type = "archive"
                         /\ result.model = old_model))

C7_Witness ==
    /\ pc = "done" /\ CombinedRun /\ ~args.force_training /\ ~prior.present
    /\ old_model = NoPath
    /\ trained = <<"graph">>
    /\ result.kind = "return" /\ result.model.type = "archive"

\* an invocation whose data and arguments lead it to a training function:
\* combined, NLU-only or Core-only training of train_async, train_core or
\* train_nlu past their checks
TrainingPath ==
    \/ /\ args.entry = "train_async" /\ ~args.domain_empty /\ ~args.dry_run
       /\ \/ args.stories_empty /\ args.pure_nlu
          \/ ~args.stories_empty /\ ~args.pure_nlu /\ ~args.e2e
          \/ CombinedRun /\ (args.force_training \/ ~Unchanged)
    \/ args.entry = "train_core" /\ ~args.e2e /\ ~args.domain_empty
          /\ ~args.stories_empty
    \/ args.entry = "train_nlu" /\ args.nlu_data /\ args.pure_nlu

\* C8: on every training path, fine-tuning requested against an archive that
\* fails can_finetune ends in a fatal error: no training is executed, no
\* archive is written and the output directory is as it was.
C8_IncompatibleFinetuneIsFatal ==
    (pc = "done" /\ args.model_to_finetune = "incompatible" /\ TrainingPath)
        => /\ result.kind = "fatal"
           /\ trained = <<>>
           /\ packaged = 0
           /\ outputDir = prior

\* C9: every temporary directory an invocation created is removed when the
\* invocation has ended, however it ended.
C9_TempDirsReleased ==
    (pc \in {"done", "idle"}) => tempDirs = {}

\* a fatal exit of the fine-tuning check inside train_async: the working
\* directory, the own train path and the unpacked archive were created
C9_Witness ==
    /\ pc = "done" /\ result.kind = "fatal" /\ acquired = 3 /\ tempDirs = {}

\* C10: train_core and train_nlu that reach training return the path of the
\* model archive if train_path is given, else the path of the directory with
\* the trained model files.
C10_ReturnedPath ==
    (pc = "done" /\ args.entry \in {"train_core", "train_nlu"}
        /\ trained # <<>> /\ result.kind = "return")
        => /\ (args.train_path => result.model.type = "archive")
           /\ (~args.train_path => result.model.type = "directory")

\* C11: on every path of train_async that writes an archive, a given
\* fixed_model_name is the name the archive is stored under and the path the
\* call returns.
C11_FixedNameIsUsed ==
    (pc = "done" /\ args.entry = "train_async" /\ args.fixed_model_name
        /\ packaged > 0)
        => /\ outputDir.name = create_output_path("", TRUE, 0, 0)
           /\ result.model = ArchivePath(outputDir.name)

----------------------------------------------------------------------------
(* Two runs of _do_training, lines 343-362, executing concurrently against *)
(* one output directory                                                    *)

Runs == {"run1", "run2"}

\* the archive names _do_training can choose
ModelNames == {model_name(stamp, suffix) : stamp \in Stamps, suffix \in Suffixes}

ConcurrentInit ==
    /\ TrainingInit
    /\ NoTokenizerCall
    /\ clock = 0
    /\ run_pc = [r \in Runs |-> "idle"]
    /\ model_name_of = [r \in Runs |-> NoName]
    /\ written = [n \in ModelNames |-> <<>>]

\* a second passes
tick ==
    /\ clock < MaxTime
    /\ clock' = clock + 1
    /\ UNCHANGED <<run_pc, model_name_of, written>>
    /\ UNCHANGED <<trainingVars, tokenizerVars>>

\* a caller starts the run: _do_training is called, line 329
call_do_training(r) ==
    /\ run_pc[r] = "idle"
    /\ run_pc' = [run_pc EXCEPT ![r] = "called"]
    /\ UNCHANGED <<clock, model_name_of, written>>
    /\ UNCHANGED <<trainingVars, tokenizerVars>>

\* lines 343-352: the schemas of the recipe, the temporary model directory,
\* the trainer
enter_temp_model_dir(r) ==
    /\ run_pc[r] = "called"
    /\ run_pc' = [run_pc EXCEPT ![r] = "temp_model_dir"]
    /\ UNCHANGED <<clock, model_name_of, written>>
    /\ UNCHANGED <<trainingVars, tokenizerVars>>

\* lines 354-357: time.strftime reads the clock, randomname.get_name() draws
choose_model_name(r) ==
    /\ run_pc[r] = "temp_model_dir"
    /\ \E suffix \in Suffixes :
          model_name_of' = [model_name_of EXCEPT ![r] = model_name(clock, suffix)]
    /\ run_pc' = [run_pc EXCEPT ![r] = "model_name"]
    /\ UNCHANGED <<clock, written>>
    /\ UNCHANGED <<trainingVars, tokenizerVars>>

\* lines 360-362: trainer.train writes the archive to model_name and the run
\* returns the name, or training raises
trainer_train(r) ==
    /\ run_pc[r] = "model_name"
    /\ \E ok \in BOOLEAN :
          IF ok
          THEN /\ written' = [written EXCEPT ![model_name_of[r]] = Append(@, r)]
               /\ run_pc' = [run_pc EXCEPT ![r] = "returned"]
          ELSE /\ run_pc' = [run_pc EXCEPT ![r] = "raised"]
               /\ UNCHANGED written
    /\ UNCHANGED <<clock, model_name_of>>
    /\ UNCHANGED <<trainingVars, tokenizerVars>>

ConcurrentNext ==
    \/ tick
    \/ \E r \in Runs : call_do_training(r)
    \/ \E r \in Runs : enter_temp_model_dir(r)
    \/ \E r \in Runs : choose_model_name(r)
    \/ \E r \in Runs : trainer_train(r)

SpecConcurrent == ConcurrentInit /\ [][ConcurrentNext]_vars

\* C12: two runs executing concurrently against the same output directory
\* never choose the same archive name, and no archive is written by more
\* than one run.
C12_NoNameCollision ==
    /\ \A r1 \in DOMAIN run_pc, r2 \in DOMAIN run_pc :
          (r1 # r2 /\ run_pc[r1] \in {"model_name", "returned", "raised"}
                   /\ run_pc[r2] \in {"model_name", "returned", "raised"})
              => model_name_of[r1] # model_name_of[r2]
    /\ \A n \in DOMAIN written : Len(written[n]) <= 1

\* C13: a dry run that loads empty stories and no pure NLU data reports code
\* 0 with the single message "No training required."
C13_NoDataDryRunIsCodeZero ==
    (pc = "done" /\ args.entry = "train_async" /\ ~args.domain_empty
        /\ args.dry_run /\ args.fingerprinted
        /\ args.stories_empty /\ ~args.pure_nlu)
        => /\ result.code = 0
           /\ result.texts = <<"No training required.">>

\* a real (not dry) train_async run past the empty-domain check that loaded
\* no stories and no pure NLU data / no stories but NLU data / stories but
\* neither pure NLU data nor e2e examples
NoDataRun ==
    /\ args.entry = "train_async" /\ ~args.domain_empty /\ ~args.dry_run
    /\ args.fingerprinted /\ args.stories_empty /\ ~args.pure_nlu

NluOnlyRun ==
    /\ args.entry = "train_async" /\ ~args.domain_empty /\ ~args.dry_run
    /\ args.fingerprinted /\ args.stories_empty /\ args.pure_nlu

CoreOnlyRun ==
    /\ args.entry = "train_async" /\ ~args.domain_empty /\ ~args.dry_run
    /\ args.fingerprinted /\ ~args.stories_empty /\ ~args.pure_nlu /\ ~args.e2e

\* the run trained the one stage and packaged it with the prefix, or ended
\* before training in the fatal exit of a requested fine-tuning, or training
\* itself raised; it never compared fingerprints
SingleStageOutcome(stage, prefix) ==
    /\ should_retrain_calls = 0
    /\ ~fingerprint_comparison.computed
    /\ pc = "done" =>
          /\ result.code = 0
          /\ trained \in {<<>>, <<stage>>}
          /\ trained = <<>> => (result.kind = "fatal" /\ args.model_to_finetune # "none")
          /\ result.kind = "return" =>
                /\ trained = <<stage>>
                /\ packaged = 1
                /\ \E stamp \in Stamps, suffix \in Suffixes :
                      outputDir.name = create_output_path(prefix, args.fixed_model_name,
                                                          stamp, suffix)
                /\ result.model = ArchivePath(outputDir.name)

EmptyDomainRun == pc # "idle" /\ args.entry = "train_async" /\ args.domain_empty

\* what both readings of C17 share: only handle_domain_if_not_exists and
\* _train_nlu_with_validated_data run; no data are loaded for the emptiness
\* checks; the fingerprints are not compared; the run ends by returning the
\* path of the "nlu-" archive with code 0, or in an exception of NLU training
NluOnlyOfEmptyDomain ==
    /\ pc \in {"handle_domain_if_not_exists", "_train_nlu_with_validated_data", "done"}
    /\ args.stories_empty /\ ~args.pure_nlu /\ ~args.e2e
    /\ ~fingerprint_comparison.computed
    /\ should_retrain_calls = 0
    /\ old_model = NoPath
    /\ pc = "done" =>
          /\ trained = <<"nlu">>
          /\ result.kind \in {"return", "exception"}
          /\ result.code = 0
          /\ result.kind = "return" =>
                /\ packaged = 1
                /\ \E stamp \in Stamps, suffix \in Suffixes :
                      outputDir.name = create_output_path("nlu-", args.fixed_model_name,
                                                          stamp, suffix)
                /\ result.model = ArchivePath(outputDir.name)

ReturnedNoneAtOnce(message) ==
    /\ result = TrainingResult("return", NoPath, 0, <<message>>)
    /\ trained = <<>>
    /\ acquired = 0
    /\ tempDirs = {}
    /\ packaged = 0
    /\ outputDir = prior

\* C18: train_core returns None at once when the data hold e2e examples, else
\* when the domain is empty, else when no stories are given (the first check
\* that fails gives the error); train_nlu_async returns None at once when no
\* NLU data path is given, else when the data hold no pure NLU data; training
\* is reached only when every check passed.
C18_ChecksBeforeTraining ==
    /\ (pc = "done" /\ args.entry = "train_core") =>
          /\ args.e2e => ReturnedNoneAtOnce("Stories file contains e2e stories.")
          /\ (~args.e2e /\ args.domain_empty) =>
                ReturnedNoneAtOnce(
                    "Core training was skipped because no valid domain file was found.")
          /\ (~args.e2e /\ ~args.domain_empty /\ args.stories_empty) =>
                ReturnedNoneAtOnce("No stories given.")
    /\ (pc = "done" /\ args.entry = "train_nlu") =>
          /\ ~args.nlu_data => ReturnedNoneAtOnce("No NLU data given.")
          /\ (args.nlu_data /\ ~args.pure_nlu) =>
                ReturnedNoneAtOnce("Path doesn't contain valid NLU data in it.")
    /\ (args.entry = "train_core"
            /\ (pc = "_train_core_with_validated_data" \/ trained # <<>> \/ acquired > 0))
          => (~args.e2e /\ ~args.domain_empty /\ ~args.stories_empty)
    /\ (args.entry = "train_nlu"
            /\ (pc = "_train_nlu_with_validated_data" \/ trained # <<>> \/ acquired > 0))
          => (args.nlu_data /\ args.pure_nlu)

\* every check of train_core fails: the e2e error is the one reported
C18_Witness ==
    /\ pc = "done" /\ args.entry = "train_core"
    /\ args.e2e /\ args.domain_empty /\ args.stories_empty
    /\ args.model_to_finetune = "compatible" /\ ~args.train_path
    /\ result.texts = <<"Stories file contains e2e stories.">>
    /\ result.model = NoPath /\ acquired = 0

----------------------------------------------------------------------------
(* Tokenizer.add_cls_token, rasa/nlu/tokenizers/tokenizer.py lines 69-81 *)

\* the longest token list and the largest offset of a token handed in
MaxTokens == 2
MaxOffset == 2

\* rasa.nlu.constants, imported in lines 6-10
MESSAGE_TEXT_ATTRIBUTE == "text"
MESSAGE_RESPONSE_ATTRIBUTE == "response"
CLS_TOKEN == "__CLS__"

Attributes == {MESSAGE_TEXT_ATTRIBUTE, MESSAGE_RESPONSE_ATTRIBUTE, "intent"}
Texts == {"a", "bc"}

\* Token.__init__, lines 15-28; lemma "" and end 0 are the falsy values (also
\* None) that `lemma or text` and `end if end else ...` replace
Token(text, offset, lemma, end) ==
    [offset |-> offset,
     text |-> text,
     end |-> IF end # 0 THEN end ELSE offset + Len(text),
     data |-> {},
     lemma |-> IF lemma # "" THEN lemma ELSE text]

\* tokens as a tokenizer builds them: the end left to the default, or set
\* past the text
InputTokens ==
    UNION {{Token(text, offset, "", 0), Token(text, offset, "", offset + Len(text) + 1)} :
              text \in Texts, offset \in 0..MaxOffset}

RECURSIVE TokenLists(_)
TokenLists(n) ==
    IF n = 0 THEN {<<>>}
    ELSE LET shorter == TokenLists(n - 1)
         IN  shorter \cup {Append(l, t) : l \in {s \in shorter : Len(s) = n - 1},
                                           t \in InputTokens}

\* add_cls_token placing the CLS token right at the end of the last token
add_cls_token_NoSpace(self_use_cls_token, toks, attr) ==
    IF attr \in {MESSAGE_RESPONSE_ATTRIBUTE, MESSAGE_TEXT_ATTRIBUTE}
        /\ self_use_cls_token /\ toks # <<>>
    THEN Append(toks, Token(CLS_TOKEN,
                            toks[Len(toks)].offset + Len(toks[Len(toks)].text), "", 0))
    ELSE toks

\* lines 72-81: the list add_cls_token returns (the list handed in, appended to)
add_cls_token(self_use_cls_token, toks, attr) ==
    IF attr \in {MESSAGE_RESPONSE_ATTRIBUTE, MESSAGE_TEXT_ATTRIBUTE}
        /\ self_use_cls_token /\ toks # <<>>
    THEN LET idx == toks[Len(toks)].offset + Len(toks[Len(toks)].text) + 1
         IN  Append(toks, Token(CLS_TOKEN, idx, "", 0))
    ELSE toks

\* a tokenizer with its use_cls_token, a token list and an attribute
TokenizerInit ==
    /\ TrainingInit
    /\ NoConcurrentRuns
    /\ tokens \in TokenLists(MaxTokens)
    /\ attribute \in Attributes
    /\ use_cls_token \in BOOLEAN
    /\ returned = <<>>

\* the call: tokens stays the list as it was handed in, returned holds the
\* list the call returned
call_add_cls_token ==
    /\ returned = <<>>
    /\ returned' = <<add_cls_token(use_cls_token, tokens, attribute)>>
    /\ UNCHANGED <<tokens, attribute, use_cls_token>>
    /\ UNCHANGED <<trainingVars, concurrentVars>>

TokenizerNext == call_add_cls_token

SpecTokenizer == TokenizerInit /\ [][TokenizerNext]_vars

\* C19: add_cls_token appends exactly one token, the CLS token at offset
\* (offset of the last token + length of its text + 1), iff the attribute is
\* text or response, use_cls_token is set and the list is not empty; else it
\* returns the list unchanged; the tokens handed in keep order and values.
C19_ClsTokenAppended ==
    returned # <<>> =>
        LET out == returned[1]
            n == Len(tokens)
            applies == /\ attribute \in {"text", "response"}
                       /\ use_cls_token
                       /\ n > 0
        IN  /\ Len(out) = (IF applies THEN n + 1 ELSE n)
            /\ \A i \in 1..n : out[i] = tokens[i]
            /\ applies =>
                  /\ out[n + 1].text = CLS_TOKEN
                  /\ out[n + 1].offset = tokens[n].offset + Len(tokens[n].text) + 1
                  /\ out[n + 1].end = out[n + 1].offset + Len(CLS_TOKEN)
            /\ ~applies => out = tokens

C19_Witness ==
    /\ returned # <<>>
    /\ attribute = "response" /\ use_cls_token
    /\ Len(tokens) = 2 /\ tokens[2].text = "bc" /\ tokens[2].offset = 2
    /\ Len(returned[1]) = 3
    /\ returned[1][3].text = "__CLS__" /\ returned[1][3].offset = 5

\* C20: of every TrainingResult train_async returns: the code is non-zero
\* only in a dry run, and then the model is None; a real run returns code 0;
\* a model is returned only by a real run that executed exactly one training
\* path or returned the prior archive without training; no invocation
\* executes more than one training path.
C20_TrainingResultShape ==
    (pc = "done" /\ args.entry = "train_async") =>
        /\ Len(trained) <= 1
        /\ result.kind = "return" =>
              /\ result.code # 0 => (args.dry_run /\ result.model = NoPath)
              /\ ~args.dry_run => result.code = 0
              /\ result.model # NoPath =>
                    /\ ~args.dry_run
                    /\ \/ Len(trained) = 1 /\ packaged = 1
                       \/ /\ trained = <<>> /\ packaged = 0
                          /\ prior.present /\ result.model = get_latest_model(prior)

====
